---------------------------- MODULE Spec2Model ----------------------------
(***************************************************************************)
(* A model of midi_util.py: the Standard MIDI File codec (byte cursor,     *)
(* integer codecs, running status, event / chunk / file decoding and       *)
(* encoding) and the tick <-> microsecond time converter.                  *)
(*                                                                         *)
(* Bytes are integers 0..255, byte strings are sequences of bytes, Python  *)
(* dicts are records (functions over their keys), Python lists are         *)
(* sequences.  A ByteData cursor is a pair (byte string, pos) where pos is *)
(* the number of bytes already consumed, as in the source.  Every failed   *)
(* assert of the source ends the call; the model records which assert      *)
(* failed in err, by the name the specification's error taxonomy gives it. *)
(***************************************************************************)
EXTENDS Integers, Sequences, FiniteSets, TLC

VARIABLES
  pc,          \* position of the driver: which call runs next
  err,         \* "" or the name of the assert / exception that ended the call
  x,           \* enc_vl's argument
  ans,         \* dec_vl's return value
  midi_bytes,  \* ByteData.byte_str of the file-level cursor (decode_midi's bd)
  pos,         \* ByteData.pos of the file-level cursor
  chunks,      \* dec_chunks' ans: the chunks decoded so far
  content,     \* ByteData.byte_str of the current track chunk (dec_chunk's content)
  cpos,        \* ByteData.pos of the current track chunk's cursor
  rs,          \* RunningStatus.rs of the current dec_events call: <<>> is None, <<s>> is s
  events,      \* dec_events' ans: the events decoded so far in the current track
  statuses,    \* the values dec_event's local `status` took at line 173, per event of the current track
  mididata,    \* the MidiFile dict handed to encode_midi / the converters
  decoded,     \* decode_midi's return value
  nconv        \* number of conversions applied to mididata so far

vars == <<pc, err, x, ans, midi_bytes, pos, chunks, content, cpos, rs, events,
          statuses, mididata, decoded, nconv>>

----------------------------------------------------------------------------
(* Sequence helpers *)

RECURSIVE Concat(_)
Concat(ss) == IF ss = <<>> THEN <<>> ELSE Head(ss) \o Concat(Tail(ss))

Reverse(s) == [i \in 1..Len(s) |-> s[Len(s) + 1 - i]]

SeqsUpTo(S, n) == UNION {[1..k -> S] : k \in 0..n}

Slice(s, a, b) == [i \in 1..(b - a) |-> s[a + i]]

\* dict.update: the keys of d override those of e
Update(e, d) == d @@ e

\* del e[k]
Del(e, k) == [f \in (DOMAIN e) \ {k} |-> e[f]]

Has(e, k) == k \in DOMAIN e

----------------------------------------------------------------------------
(* Error names: one per assert / exception site of the source *)

UnexpectedEndOfData == "UnexpectedEndOfData"             \* ByteData.read, line 80
CursorUnderflow == "CursorUnderflow"                     \* ByteData.dec, line 86
RunningStatusUnset == "RunningStatusUnset"               \* RunningStatus.get, line 92
UnsupportedDivisionFormat == "UnsupportedDivisionFormat" \* get_ticks_per_beat, line 104
MalformedEndOfTrack == "MalformedEndOfTrack"             \* dec_meta_event, lines 120-121
MalformedTempo == "MalformedTempo"                       \* dec_meta_event, line 127
UnknownEventStatus == "UnknownEventStatus"               \* dec_event, line 195
MissingHeaderChunk == "MissingHeaderChunk"               \* decode_midi, line 233
TrackCountMismatch == "TrackCountMismatch"               \* decode_midi, line 235
IndexError == "IndexError"                               \* chunks[0] line 232, tracks[0] line 313
ZeroDivisionError == "ZeroDivisionError"                 \* lines 349, 386

----------------------------------------------------------------------------
(* Constants of the source *)

TAG_HEADER == <<77, 84, 104, 100>>
TAG_TRACK == <<77, 84, 114, 107>>

READLEN_TABLE(hi) ==
  CASE hi = 160 -> 2
    [] hi = 176 -> 2
    [] hi = 208 -> 1
    [] hi = 224 -> 2

DefaultTempo == 500000

----------------------------------------------------------------------------
(* ByteData *)

\* ByteData.read(n) at position p of bs: the assert of line 80
CanRead(bs, p, n) == p + n <= Len(bs)

\* the slice byte_str[base:self.pos]
ReadBytes(bs, p, n) == Slice(bs, p, p + n)

\* ByteData.remaining
Remaining(bs, p) == Len(bs) - p

Fail(e, p) == [err |-> e, pos |-> p]

----------------------------------------------------------------------------
(* Integer codecs *)

enc_16(v) == <<v \div 256, v % 256>>

dec_16(bs, p) ==
  IF ~CanRead(bs, p, 2) THEN Fail(UnexpectedEndOfData, p)
  ELSE [err |-> "", pos |-> p + 2, val |-> 256 * bs[p + 1] + bs[p + 2]]

enc_32(v) ==
  Reverse(<<v % 256, (v \div 256) % 256, (v \div 65536) % 256, (v \div 16777216) % 256>>)

dec_32(bs, p) ==
  IF ~CanRead(bs, p, 4) THEN Fail(UnexpectedEndOfData, p)
  ELSE [err |-> "", pos |-> p + 4,
        val |-> ((bs[p + 1] * 256 + bs[p + 2]) * 256 + bs[p + 3]) * 256 + bs[p + 4]]

\* the while loop of enc_vl: acc is the list `ans`, least significant digit first
RECURSIVE enc_vl_loop(_, _)
enc_vl_loop(v, acc) ==
  IF v > 0 THEN enc_vl_loop(v \div 128, Append(acc, 128 + (v % 128))) ELSE acc

enc_vl(v) == Reverse(enc_vl_loop(v \div 128, <<v % 128>>))

\* the while loop of dec_vl: b is the byte read last, a the value so far
RECURSIVE dec_vl_loop(_, _, _, _)
dec_vl_loop(bs, p, b, a) ==
  IF (b \div 128) % 2 # 0
  THEN IF ~CanRead(bs, p, 1) THEN Fail(UnexpectedEndOfData, p)
       ELSE dec_vl_loop(bs, p + 1, bs[p + 1], a * 128 + (bs[p + 1] % 128))
  ELSE [err |-> "", pos |-> p, val |-> a]

\* dec_vl with `ans = b` for line 63
dec_vl_nomask(bs, p) ==
  IF ~CanRead(bs, p, 1) THEN Fail(UnexpectedEndOfData, p)
  ELSE dec_vl_loop(bs, p + 1, bs[p + 1], bs[p + 1])

dec_vl(bs, p) ==
  IF ~CanRead(bs, p, 1) THEN Fail(UnexpectedEndOfData, p)
  ELSE dec_vl_loop(bs, p + 1, bs[p + 1], bs[p + 1] % 128)

----------------------------------------------------------------------------
(* Event decoding.  Each decoder returns [err, pos] on failure and          *)
(* [err |-> "", pos, ev] on success, ev being the dict it returns.          *)

get_ticks_per_beat(division_code) ==
  IF (division_code \div 32768) % 2 # 0
  THEN [err |-> UnsupportedDivisionFormat]
  ELSE [err |-> "", val |-> division_code % 32768]

\* the two branches `length = dec_vl(bd); ... bd.read(length)` of dec_meta_event
dec_meta_payload(bs, p, subtype, kind) ==
  LET l == dec_vl(bs, p) IN
  IF l.err # "" THEN Fail(l.err, l.pos)
  ELSE IF ~CanRead(bs, l.pos, l.val) THEN Fail(UnexpectedEndOfData, l.pos)
  ELSE [err |-> "", pos |-> l.pos + l.val,
        ev |-> IF kind = "text"
               THEN [subtype |-> "text", code |-> subtype,
                     text |-> ReadBytes(bs, l.pos, l.val)]
               ELSE [subtype |-> "meta_code", code |-> subtype,
                     data |-> ReadBytes(bs, l.pos, l.val)]]

\* the end-of-track branch without the check of line 121
dec_end_track_nocheck(bs, p) ==
  IF ~CanRead(bs, p, 1) THEN Fail(UnexpectedEndOfData, p)
  ELSE IF bs[p + 1] # 0 THEN Fail(MalformedEndOfTrack, p + 1)
  ELSE [err |-> "", pos |-> p + 1, ev |-> [subtype |-> "end_track"]]

\* the end-of-track branch of dec_meta_event, lines 118-124
dec_end_track(bs, p) ==
  IF ~CanRead(bs, p, 1) THEN Fail(UnexpectedEndOfData, p)
  ELSE IF bs[p + 1] # 0 THEN Fail(MalformedEndOfTrack, p + 1)
  ELSE IF Remaining(bs, p + 1) # 0 THEN Fail(MalformedEndOfTrack, p + 1)
  ELSE [err |-> "", pos |-> p + 1, ev |-> [subtype |-> "end_track"]]

\* the tempo branch of dec_meta_event, lines 125-134
dec_tempo(bs, p) ==
  IF ~CanRead(bs, p, 1) THEN Fail(UnexpectedEndOfData, p)
  ELSE IF bs[p + 1] # 3 THEN Fail(MalformedTempo, p + 1)
  ELSE LET hi == dec_16(bs, p + 1) IN
       IF hi.err # "" THEN Fail(hi.err, hi.pos)
       ELSE IF ~CanRead(bs, hi.pos, 1) THEN Fail(UnexpectedEndOfData, hi.pos)
       ELSE [err |-> "", pos |-> hi.pos + 1,
             ev |-> [subtype |-> "tempo", tempo |-> 256 * hi.val + bs[hi.pos + 1]]]

dec_meta_event(bs, p) ==
  IF ~CanRead(bs, p, 1) THEN Fail(UnexpectedEndOfData, p)
  ELSE LET subtype == bs[p + 1] IN
       IF 1 <= subtype /\ subtype <= 15 THEN dec_meta_payload(bs, p + 1, subtype, "text")
       ELSE IF subtype = 47 THEN dec_end_track(bs, p + 1)
       ELSE IF subtype = 81 THEN dec_tempo(bs, p + 1)
       ELSE dec_meta_payload(bs, p + 1, subtype, "meta_code")

dec_midi_event(status, bs, p) ==
  LET chan == status % 16
      hi == status - chan
  IN
  IF hi = 192 THEN
    IF ~CanRead(bs, p, 1) THEN Fail(UnexpectedEndOfData, p)
    ELSE [err |-> "", pos |-> p + 1,
          ev |-> [chan |-> chan, type |-> "setinst", inst |-> bs[p + 1]]]
  ELSE IF hi = 128 THEN
    IF ~CanRead(bs, p, 2) THEN Fail(UnexpectedEndOfData, p)
    ELSE [err |-> "", pos |-> p + 2,
          ev |-> [chan |-> chan, type |-> "note_off", note |-> bs[p + 1],
                  velocity |-> bs[p + 2]]]
  ELSE IF hi = 144 THEN
    IF ~CanRead(bs, p, 2) THEN Fail(UnexpectedEndOfData, p)
    ELSE [err |-> "", pos |-> p + 2,
          ev |-> IF bs[p + 2] = 0
                 THEN [chan |-> chan, note |-> bs[p + 1], type |-> "note_off",
                       velocity |-> 64]
                 ELSE [chan |-> chan, note |-> bs[p + 1], type |-> "note_on",
                       velocity |-> bs[p + 2]]]
  ELSE
    LET n == READLEN_TABLE(hi) IN
    IF ~CanRead(bs, p, n) THEN Fail(UnexpectedEndOfData, p)
    ELSE [err |-> "", pos |-> p + n,
          ev |-> [chan |-> chan, type |-> "midi_code", status |-> status,
                  data |-> ReadBytes(bs, p, n)]]

\* the system-event branch of dec_event, lines 174-180
dec_system_event(status, bs, p) ==
  LET l == dec_vl(bs, p) IN
  IF l.err # "" THEN Fail(l.err, l.pos)
  ELSE IF ~CanRead(bs, l.pos, l.val) THEN Fail(UnexpectedEndOfData, l.pos)
  ELSE [err |-> "", pos |-> l.pos + l.val,
        ev |-> [type |-> "system", status |-> status,
                data |-> ReadBytes(bs, l.pos, l.val)]]

\* what happens to the running status r when the body's first byte is `status`
\* and the body decodes
rs_after(r, status) ==
  IF 240 <= status /\ status <= 247 THEN <<>>
  ELSE IF 128 <= status /\ status <= 239 THEN <<status>>
  ELSE r

\* the running-status branch of dec_event without bd.dec(), line 192
dec_running_nodec(bs, p, r) ==
  IF r = <<>> THEN Fail(RunningStatusUnset, p)
  ELSE dec_midi_event(r[1], bs, p)

\* the running-status branch of dec_event, lines 189-193; p is the position
\* after the byte that was read as `status`
dec_running(bs, p, r) ==
  IF r = <<>> THEN Fail(RunningStatusUnset, p)
  ELSE IF p - 1 < 0 THEN Fail(CursorUnderflow, p - 1)
  ELSE dec_midi_event(r[1], bs, p - 1)

\* the event body of dec_event (lines 173-195) from position p
dec_event_body(bs, p, r) ==
  IF ~CanRead(bs, p, 1) THEN Fail(UnexpectedEndOfData, p)
  ELSE LET status == bs[p + 1] IN
       IF 240 <= status /\ status <= 247 THEN dec_system_event(status, bs, p + 1)
       ELSE IF status = 255 THEN
         LET m == dec_meta_event(bs, p + 1) IN
         IF m.err # "" THEN m
         ELSE [err |-> "", pos |-> m.pos, ev |-> Update([type |-> "meta"], m.ev)]
       ELSE IF 128 <= status /\ status <= 239 THEN dec_midi_event(status, bs, p + 1)
       ELSE IF status < 128 THEN dec_running(bs, p + 1, r)
       ELSE Fail(UnknownEventStatus, p + 1)

\* dec_event(bd, running_status): [err, pos] or [err |-> "", pos, ev, rs, status]
dec_event(bs, p, r) ==
  LET d == dec_vl(bs, p) IN
  IF d.err # "" THEN Fail(d.err, d.pos)
  ELSE LET b == dec_event_body(bs, d.pos, r) IN
       IF b.err # "" THEN Fail(b.err, b.pos)
       ELSE [err |-> "", pos |-> b.pos, ev |-> Update([dt |-> d.val], b.ev),
             rs |-> rs_after(r, bs[d.pos + 1]), status |-> bs[d.pos + 1]]

----------------------------------------------------------------------------
(* Encoding *)

EncodableEvent(event) ==
  \/ event.type \in {"note_off", "note_on", "setinst", "midi_code", "system"}
  \/ /\ event.type = "meta"
     /\ event.subtype \in {"end_track", "tempo", "meta_code", "text"}

enc_event(event) ==
  LET dt == enc_vl(event.dt) IN
  IF event.type = "note_off" THEN dt \o <<128 + event.chan, event.note, event.velocity>>
  ELSE IF event.type = "note_on" THEN dt \o <<144 + event.chan, event.note, event.velocity>>
  ELSE IF event.type = "setinst" THEN dt \o <<192 + event.chan, event.inst>>
  ELSE IF event.type = "midi_code" THEN dt \o <<event.status>> \o event.data
  ELSE IF event.type = "system"
    THEN dt \o <<event.status>> \o enc_vl(Len(event.data)) \o event.data
  ELSE IF event.subtype = "end_track" THEN dt \o <<255, 47, 0>>
  ELSE IF event.subtype = "tempo"
    THEN dt \o <<255, 81, 3>> \o enc_16(event.tempo \div 256) \o <<event.tempo % 256>>
  ELSE IF event.subtype = "meta_code"
    THEN dt \o <<255, event.code>> \o enc_vl(Len(event.data)) \o event.data
  ELSE dt \o <<255, event.code>> \o enc_vl(Len(event.text)) \o event.text

header_chunk(formt, ntrks, division) ==
  LET contents == enc_16(formt) \o enc_16(ntrks) \o enc_16(division) IN
  TAG_HEADER \o enc_32(Len(contents)) \o contents

\* track_chunk with the number of events for the chunk length
track_chunk_count(evs) ==
  LET contents == Concat([i \in 1..Len(evs) |-> enc_event(evs[i])]) IN
  TAG_TRACK \o enc_32(Len(evs)) \o contents

track_chunk(evs) ==
  LET contents == Concat([i \in 1..Len(evs) |-> enc_event(evs[i])]) IN
  TAG_TRACK \o enc_32(Len(contents)) \o contents

encode_midi(md) ==
  header_chunk(md.format, Len(md.tracks), md.ticks_per_beat)
    \o Concat([i \in 1..Len(md.tracks) |-> track_chunk(md.tracks[i])])

----------------------------------------------------------------------------
(* The decoder as a state machine: decode_midi -> dec_chunks -> dec_chunk   *)
(* -> dec_events -> dec_event.  One step per chunk header and per event.    *)

NoFile == [format |-> 0, ticks_per_beat |-> 0, tracks |-> <<>>]

\* the header branch of dec_chunk, lines 209-213, on the chunk's content c
dec_header(c) ==
  LET f == dec_16(c, 0) IN
  IF f.err # "" THEN [err |-> f.err]
  ELSE LET n == dec_16(c, f.pos) IN
  IF n.err # "" THEN [err |-> n.err]
  ELSE LET d == dec_16(c, n.pos) IN
  IF d.err # "" THEN [err |-> d.err]
  ELSE LET t == get_ticks_per_beat(d.val) IN
  IF t.err # "" THEN [err |-> t.err]
  ELSE [err |-> "",
        chunk |-> [type |-> "header", format |-> f.val, n_tracks |-> n.val,
                   ticks_per_beat |-> t.val]]

\* the first three lines of dec_chunk: tag, length, content
read_chunk(bs, p) ==
  IF ~CanRead(bs, p, 4) THEN Fail(UnexpectedEndOfData, p)
  ELSE LET l == dec_32(bs, p + 4) IN
  IF l.err # "" THEN Fail(l.err, l.pos)
  ELSE IF ~CanRead(bs, l.pos, l.val) THEN Fail(UnexpectedEndOfData, l.pos)
  ELSE [err |-> "", pos |-> l.pos + l.val, tag |-> ReadBytes(bs, p, 4),
        content |-> ReadBytes(bs, l.pos, l.val)]

\* RunningStatus() of line 200, for the track chunk that starts
NewRunningStatusShared(old) == old

NewRunningStatus(old) == <<>>

Abort(e) ==
  /\ pc' = "failed"
  /\ err' = e

\* one iteration of dec_chunks: dec_chunk up to the point where the events
\* of a track chunk are decoded
DecChunk ==
  /\ pc = "chunks"
  /\ Remaining(midi_bytes, pos) > 0
  /\ LET c == read_chunk(midi_bytes, pos) IN
     IF c.err # ""
     THEN /\ Abort(c.err)
          /\ UNCHANGED <<pos, chunks, content, cpos, rs, events, statuses>>
     ELSE IF c.tag = TAG_HEADER
     THEN LET h == dec_header(c.content) IN
          IF h.err # ""
          THEN /\ Abort(h.err)
               /\ UNCHANGED <<pos, chunks, content, cpos, rs, events, statuses>>
          ELSE /\ chunks' = Append(chunks, h.chunk)
               /\ pos' = c.pos
               /\ UNCHANGED <<pc, err, content, cpos, rs, events, statuses>>
     ELSE IF c.tag = TAG_TRACK
     THEN /\ pc' = "events"
          /\ pos' = c.pos
          /\ content' = c.content
          /\ cpos' = 0
          /\ rs' = NewRunningStatus(rs)
          /\ events' = <<>>
          /\ statuses' = <<>>
          /\ UNCHANGED <<err, chunks>>
     ELSE /\ chunks' = Append(chunks, [type |-> "unknown"])
          /\ pos' = c.pos
          /\ UNCHANGED <<pc, err, content, cpos, rs, events, statuses>>
  /\ UNCHANGED <<x, ans, midi_bytes, mididata, decoded, nconv>>

\* one iteration of the loop of dec_events: dec_event
DecEvent ==
  /\ pc = "events"
  /\ Remaining(content, cpos) > 0
  /\ LET e == dec_event(content, cpos, rs) IN
     IF e.err # ""
     THEN /\ Abort(e.err)
          /\ UNCHANGED <<cpos, rs, events, statuses>>
     ELSE /\ events' = Append(events, e.ev)
          /\ cpos' = e.pos
          /\ rs' = e.rs
          /\ statuses' = Append(statuses, e.status)
          /\ UNCHANGED <<pc, err>>
  /\ UNCHANGED <<x, ans, midi_bytes, pos, chunks, content, mididata, decoded, nconv>>

\* dec_events returns, dec_chunk returns the track chunk
EndTrack ==
  /\ pc = "events"
  /\ Remaining(content, cpos) = 0
  /\ chunks' = Append(chunks, [type |-> "track", events |-> events])
  /\ pc' = "chunks"
  /\ UNCHANGED <<err, x, ans, midi_bytes, pos, content, cpos, rs, events, statuses,
                 mididata, decoded, nconv>>

SelectTracks(cs) == SelectSeq(cs, LAMBDA c : c.type = "track")

\* decode_midi after dec_chunks returned, lines 232-240, without the assert of line 235
FinishResultNoCount(cs) ==
  IF cs = <<>> THEN [err |-> IndexError]
  ELSE IF cs[1].type # "header" THEN [err |-> MissingHeaderChunk]
  ELSE LET tracks == SelectTracks(cs) IN
       [err |-> "",
        val |-> [format |-> cs[1].format, ticks_per_beat |-> cs[1].ticks_per_beat,
                 tracks |-> [i \in 1..Len(tracks) |-> tracks[i].events]]]

\* decode_midi after dec_chunks returned, lines 232-240
FinishResult(cs) ==
  IF cs = <<>> THEN [err |-> IndexError]
  ELSE IF cs[1].type # "header" THEN [err |-> MissingHeaderChunk]
  ELSE LET tracks == SelectTracks(cs) IN
       IF cs[1].n_tracks # Len(tracks) THEN [err |-> TrackCountMismatch]
       ELSE [err |-> "",
             val |-> [format |-> cs[1].format, ticks_per_beat |-> cs[1].ticks_per_beat,
                      tracks |-> [i \in 1..Len(tracks) |-> tracks[i].events]]]

Finish ==
  /\ pc = "chunks"
  /\ Remaining(midi_bytes, pos) = 0
  /\ LET r == FinishResult(chunks) IN
     IF r.err # ""
     THEN /\ Abort(r.err)
          /\ UNCHANGED decoded
     ELSE /\ pc' = "done"
          /\ decoded' = r.val
          /\ UNCHANGED err
  /\ UNCHANGED <<x, ans, midi_bytes, pos, chunks, content, cpos, rs, events, statuses,
                 mididata, nconv>>

----------------------------------------------------------------------------
(* The whole of dec_events and of dec_chunks as functions of the bytes,     *)
(* used to say of a buffer that its chunks decode.                          *)

RECURSIVE dec_events_loop(_, _, _, _)
dec_events_loop(bs, p, r, acc) ==
  IF Remaining(bs, p) > 0
  THEN LET e == dec_event(bs, p, r) IN
       IF e.err # "" THEN [err |-> e.err]
       ELSE dec_events_loop(bs, e.pos, e.rs, Append(acc, e.ev))
  ELSE [err |-> "", val |-> acc]

dec_events(bs) == dec_events_loop(bs, 0, <<>>, <<>>)

dec_chunk(bs, p) ==
  LET c == read_chunk(bs, p) IN
  IF c.err # "" THEN [err |-> c.err]
  ELSE IF c.tag = TAG_HEADER
  THEN LET h == dec_header(c.content) IN
       IF h.err # "" THEN [err |-> h.err]
       ELSE [err |-> "", pos |-> c.pos, tag |-> c.tag, chunk |-> h.chunk]
  ELSE IF c.tag = TAG_TRACK
  THEN LET t == dec_events(c.content) IN
       IF t.err # "" THEN [err |-> t.err]
       ELSE [err |-> "", pos |-> c.pos, tag |-> c.tag,
             chunk |-> [type |-> "track", events |-> t.val]]
  ELSE [err |-> "", pos |-> c.pos, tag |-> c.tag, chunk |-> [type |-> "unknown"]]

RECURSIVE dec_chunks_loop(_, _, _)
dec_chunks_loop(bs, p, acc) ==
  IF Remaining(bs, p) > 0
  THEN LET c == dec_chunk(bs, p) IN
       IF c.err # "" THEN [err |-> c.err]
       ELSE dec_chunks_loop(bs, c.pos, Append(acc, [tag |-> c.tag, chunk |-> c.chunk]))
  ELSE [err |-> "", val |-> acc]

\* dec_chunks, keeping each chunk's tag next to what it decoded to
dec_chunks(bs) == dec_chunks_loop(bs, 0, <<>>)

----------------------------------------------------------------------------
(* Decoding byte buffers: specification SpecDec *)

MaxFrags == 3
MaxChunks == 3

Chunk(tag, c) == tag \o enc_32(Len(c)) \o c

TAG_OTHER == <<88, 88, 88, 88>>

RunningExample == <<0, 144, 60, 100, 129, 0, 62, 90>>

\* pieces of track content: whole events, events that rely on the running
\* status, and events cut short
Fragments ==
  { <<0, 144, 60, 100>>,      \* note on, explicit status 0x90
    <<129, 0, 62, 90>>,       \* delta 128, two data bytes, no status byte
    <<0, 60, 0>>,             \* two data bytes, no status byte, velocity 0
    <<0, 7>>,                 \* one data byte, no status byte
    <<0, 193, 5>>,            \* program change, explicit status 0xC1
    <<0, 224, 1, 2>>,         \* pitch bend, explicit status 0xE0
    <<0, 255, 1, 1, 65>>,     \* meta text
    <<0, 255, 47, 0>>,        \* end of track
    <<0, 255, 47>>,           \* end of track without its zero byte
    <<0, 255, 47, 1>>,        \* end of track followed by a nonzero byte
    <<0, 240, 1, 7>>,         \* system event 0xF0 with one data byte
    <<0, 250>> }              \* status byte 0xFA

TrackContents == {Concat(fs) : fs \in SeqsUpTo(Fragments, MaxFrags)}

SampleChunks ==
  { header_chunk(1, 0, 96), header_chunk(1, 1, 96), header_chunk(1, 2, 96),
    header_chunk(0, 1, 57936),
    Chunk(TAG_HEADER, <<0, 1>>),
    Chunk(TAG_TRACK, <<>>),
    Chunk(TAG_TRACK, <<0, 144, 60, 100>>),
    Chunk(TAG_TRACK, <<0, 62, 90>>),
    Chunk(TAG_TRACK, <<0, 255, 47, 0>>),
    Chunk(TAG_TRACK, <<0, 144, 60>>),
    Chunk(TAG_OTHER, <<1, 2>>),
    <<77, 84>> }

DecInputs ==
  {header_chunk(1, 1, 96) \o Chunk(TAG_TRACK, c) : c \in TrackContents}
    \cup {Concat(cs) : cs \in SeqsUpTo(SampleChunks, MaxChunks)}

InitDec ==
  /\ midi_bytes \in DecInputs
  /\ pc = "chunks"
  /\ err = ""
  /\ pos = 0
  /\ chunks = <<>>
  /\ content = <<>>
  /\ cpos = 0
  /\ rs = <<>>
  /\ events = <<>>
  /\ statuses = <<>>
  /\ mididata = NoFile
  /\ decoded = NoFile
  /\ x = 0
  /\ ans = 0
  /\ nconv = 0

NextDec == DecChunk \/ DecEvent \/ EndTrack \/ Finish

SpecDec == InitDec /\ [][NextDec]_vars

----------------------------------------------------------------------------
(* What the track cursor (content, cpos) is looking at *)

DeltaOk == dec_vl(content, cpos).err = ""
BodyPos == dec_vl(content, cpos).pos
AtEvent == pc = "events" /\ Remaining(content, cpos) > 0
BodyReadable == DeltaOk /\ CanRead(content, BodyPos, 1)
BodyByte == content[BodyPos + 1]

\* the running status the bytes read so far call for: the most recent
\* explicit channel-voice status, unless a system event came after it
RECURSIVE RunningOf(_)
RunningOf(h) ==
  IF h = <<>> THEN <<>>
  ELSE LET s == h[Len(h)] IN
       IF 128 <= s /\ s <= 239 THEN <<s>>
       ELSE IF 240 <= s /\ s <= 247 THEN <<>>
       ELSE RunningOf(SubSeq(h, 1, Len(h) - 1))

\* e is the channel-voice event of status s whose first data byte is b
IsVoice(e, s, b) ==
  /\ Has(e, "chan") /\ e.chan = s % 16
  /\ LET hi == s - (s % 16) IN
     IF hi = 128 THEN e.type = "note_off" /\ e.note = b
     ELSE IF hi = 144
       THEN e.note = b /\ (e.type = "note_on" \/ (e.type = "note_off" /\ e.velocity = 64))
     ELSE IF hi = 192 THEN e.type = "setinst" /\ e.inst = b
     ELSE e.type = "midi_code" /\ e.status = s /\ e.data[1] = b

\* C2: running-status reuse.  In the track being decoded, every event whose
\* body started with a byte < 0x80 is the channel-voice event of the status S
\* of the most recent explicit channel-voice event (meta events and other
\* running-status events in between do not matter), with that byte as its
\* first data byte, and the running status is still S afterwards; the bytes
\* d1,0x90,60,100,d2,62,90 decode to note-on 60 and note-on 62 on channel 0.
C2_RunningStatusReuse ==
  /\ Len(events) = Len(statuses)
  /\ rs = RunningOf(statuses)
  /\ \A i \in 1..Len(statuses) :
       statuses[i] < 128 =>
         LET r == RunningOf(SubSeq(statuses, 1, i - 1)) IN
         /\ r # <<>>
         /\ IsVoice(events[i], r[1], statuses[i])
         /\ RunningOf(SubSeq(statuses, 1, i)) = r
  /\ (content = RunningExample /\ pc # "failed" /\ cpos = Len(content)) =>
       events = << [dt |-> 0, chan |-> 0, type |-> "note_on", note |-> 60, velocity |-> 100],
                   [dt |-> 128, chan |-> 0, type |-> "note_on", note |-> 62, velocity |-> 90] >>

\* a program change, then a meta event, then an event without a status byte
C2_Witness ==
  /\ Len(statuses) = 3
  /\ statuses[1] = 193 /\ statuses[2] = 255 /\ statuses[3] < 128
  /\ events[3].type = "setinst"

C2_ExampleWitness == content = RunningExample /\ Len(events) = 2

\* C3: an event whose body starts with a byte < 0x80 fails with
\* RunningStatusUnset exactly when the running status is unset, which is when
\* no explicit channel-voice status was decoded in this track since its start
\* or since its last system event; every track chunk starts with it unset.
C3_Step ==
  /\ (AtEvent /\ BodyReadable /\ BodyByte < 128) =>
        ((pc' = "failed" /\ err' = RunningStatusUnset) <=> rs = <<>>)
  /\ (err = "" /\ err' = RunningStatusUnset) =>
        (AtEvent /\ BodyReadable /\ BodyByte < 128 /\ rs = <<>>)
  /\ (pc = "chunks" /\ pc' = "events") => rs' = <<>>
  /\ (rs' = <<>>) <=> (RunningOf(statuses') = <<>>)

\* C3: every step of the decoder satisfies C3_Step (RunningStatusUnset exactly
\* when a data byte starts an event body while the running status is unset).
C3_RunningStatusUnset == [][C3_Step]_vars

\* a track that set a status was decoded, and a later track failed for want of one
C3_Witness ==
  /\ pc = "failed" /\ err = RunningStatusUnset
  /\ statuses = <<>>
  /\ \E i \in 1..Len(chunks) :
       chunks[i].type = "track" /\ chunks[i].events # <<>>

----------------------------------------------------------------------------
(* The chunk framing of a buffer: tags and contents by the length fields    *)
(* alone, whatever the contents hold.                                       *)

RECURSIVE frames_loop(_, _, _)
frames_loop(bs, p, acc) ==
  IF Remaining(bs, p) > 0
  THEN LET c == read_chunk(bs, p) IN
       IF c.err # "" THEN [err |-> c.err, val |-> acc]
       ELSE frames_loop(bs, c.pos, Append(acc, [tag |-> c.tag, content |-> c.content]))
  ELSE [err |-> "", val |-> acc]

Frames == frames_loop(midi_bytes, 0, <<>>)
FirstFrameIsHeader == Frames.val # <<>> /\ Frames.val[1].tag = TAG_HEADER
FirstFrameIsOther == Frames.val # <<>> /\ Frames.val[1].tag # TAG_HEADER
NumTrackFrames == Cardinality({i \in 1..Len(Frames.val) : Frames.val[i].tag = TAG_TRACK})
\* the track count the first chunk declares, when it is a header chunk that decodes
DeclaredOk == FirstFrameIsHeader /\ dec_header(Frames.val[1].content).err = ""
Declared == 256 * Frames.val[1].content[3] + Frames.val[1].content[4]
AllChunksDecode == dec_chunks(midi_bytes).err = ""
Ended == pc \in {"done", "failed"}

\* C7 as stated: decode_midi fails with MissingHeaderChunk whenever the first
\* chunk is not a header chunk, and with TrackCountMismatch whenever the
\* declared track count differs from the number of MTrk chunks; a successful
\* decode returns as many tracks as the header declares.
C7_Original ==
  Ended =>
    /\ FirstFrameIsOther => (pc = "failed" /\ err = MissingHeaderChunk)
    /\ (Frames.err = "" /\ DeclaredOk /\ Declared # NumTrackFrames) =>
         (pc = "failed" /\ err = TrackCountMismatch)
    /\ pc = "done" =>
         (DeclaredOk /\ Len(decoded.tracks) = Declared /\ Declared = NumTrackFrames)

\* C7 amended: the same, for the buffers all of whose chunks decode (the
\* chunks are all decoded before the header is looked at, so a chunk that
\* fails to decode decides the error).
C7_FileLevelDecode ==
  (Ended /\ AllChunksDecode) =>
    /\ FirstFrameIsOther => (pc = "failed" /\ err = MissingHeaderChunk)
    /\ (DeclaredOk /\ Declared # NumTrackFrames) =>
         (pc = "failed" /\ err = TrackCountMismatch)
    /\ (DeclaredOk /\ Declared = NumTrackFrames) => pc = "done"
    /\ pc = "done" =>
         (DeclaredOk /\ Len(decoded.tracks) = Declared /\ Declared = NumTrackFrames)

\* a buffer with a chunk of unknown tag whose track count is wrong
C7_Witness ==
  /\ pc = "failed" /\ err = TrackCountMismatch
  /\ AllChunksDecode
  /\ \E i \in 1..Len(chunks) : chunks[i].type = "unknown"
  /\ NumTrackFrames >= 1

----------------------------------------------------------------------------
(* End of track *)

IsEndTrack(e) == Has(e, "subtype") /\ e.subtype = "end_track"

\* the cursor is at an event whose body is a meta event of subtype 0x2F
CursorAtEndTrack ==
  /\ BodyReadable /\ BodyByte = 255
  /\ CanRead(content, BodyPos + 1, 1) /\ content[BodyPos + 2] = 47

\* ... followed by a zero byte that is the last byte of the chunk
EndTrackWellPlaced ==
  /\ CanRead(content, BodyPos + 2, 1) /\ content[BodyPos + 3] = 0
  /\ BodyPos + 3 = Len(content)

\* in every track decoded so far an end-of-track event is the last event
EndTrackOnlyLast ==
  /\ \A i \in 1..Len(events) :
       IsEndTrack(events[i]) => (i = Len(events) /\ cpos = Len(content))
  /\ \A k \in 1..Len(chunks) :
       chunks[k].type = "track" =>
         \A i \in 1..Len(chunks[k].events) :
           IsEndTrack(chunks[k].events[i]) => i = Len(chunks[k].events)

\* C8 as stated: a meta event of subtype 0x2F fails with MalformedEndOfTrack
\* unless the next byte is 0x00 and is the last byte of the track chunk; an
\* end-of-track event is the last event of its track.
C8_OriginalStep ==
  /\ (AtEvent /\ CursorAtEndTrack /\ ~EndTrackWellPlaced) =>
       (pc' = "failed" /\ err' = MalformedEndOfTrack)
  /\ (AtEvent /\ CursorAtEndTrack /\ EndTrackWellPlaced) => pc' = "events"
  /\ EndTrackOnlyLast'

\* C8 as stated, of every step of the decoder
C8_Original == [][C8_OriginalStep]_vars

\* C8 amended: the failure is UnexpectedEndOfData when the chunk ends right
\* after the 0x2F byte, MalformedEndOfTrack in every other case.
C8_Step ==
  /\ (AtEvent /\ CursorAtEndTrack /\ ~EndTrackWellPlaced) =>
       /\ pc' = "failed"
       /\ err' = IF CanRead(content, BodyPos + 2, 1)
                 THEN MalformedEndOfTrack ELSE UnexpectedEndOfData
  /\ (AtEvent /\ CursorAtEndTrack /\ EndTrackWellPlaced) =>
       (pc' = "events" /\ IsEndTrack(events'[Len(events')]))
  /\ EndTrackOnlyLast'

\* C8 amended, of every step of the decoder: a misplaced end of track fails,
\* a well placed one is the last event of its track.
C8_EndOfTrack == [][C8_Step]_vars

\* an end-of-track marker with its zero byte, followed by more bytes
C8_Witness ==
  /\ pc = "failed" /\ err = MalformedEndOfTrack
  /\ CursorAtEndTrack
  /\ CanRead(content, BodyPos + 2, 1) /\ content[BodyPos + 3] = 0
  /\ events # <<>>

----------------------------------------------------------------------------
(* Variable-length quantities: specification SpecVL.  enc_vl is applied to  *)
(* x, the result is followed by other bytes (kept in content), and dec_vl   *)
(* is applied to a cursor at its start.                                     *)

MaxVl == 300

VlInputs == (0..MaxVl) \cup {16383, 16384, 2097151, 2097152, 268435455, 268435456}

Trailers == {<<>>, <<0>>, <<129, 0>>, <<255>>}

InitVL ==
  /\ x \in VlInputs
  /\ pc = "vl_start"
  /\ err = ""
  /\ midi_bytes = <<>>
  /\ pos = 0
  /\ content = <<>>
  /\ ans = 0
  /\ chunks = <<>>
  /\ cpos = 0
  /\ rs = <<>>
  /\ events = <<>>
  /\ statuses = <<>>
  /\ mididata = NoFile
  /\ decoded = NoFile
  /\ nconv = 0

EncVl ==
  /\ pc = "vl_start"
  /\ \E t \in Trailers :
       /\ midi_bytes' = enc_vl(x) \o t
       /\ content' = t
  /\ pos' = 0
  /\ pc' = "vl_encoded"
  /\ UNCHANGED <<err, x, ans, chunks, cpos, rs, events, statuses, mididata, decoded, nconv>>

DecVl ==
  /\ pc = "vl_encoded"
  /\ LET r == dec_vl(midi_bytes, pos) IN
     IF r.err # ""
     THEN /\ Abort(r.err)
          /\ UNCHANGED <<pos, ans>>
     ELSE /\ pc' = "vl_decoded"
          /\ pos' = r.pos
          /\ ans' = r.val
          /\ UNCHANGED err
  /\ UNCHANGED <<x, midi_bytes, chunks, content, cpos, rs, events, statuses, mididata,
                 decoded, nconv>>

NextVL == EncVl \/ DecVl

SpecVL == InitVL /\ [][NextVL]_vars

\* the number of bytes enc_vl produced
VlLen == Len(midi_bytes) - Len(content)

\* C9: dec_vl at the start of enc_vl(n) returns n and consumes exactly the
\* bytes of enc_vl(n); enc_vl(0) is the single byte 0x00; every byte of
\* enc_vl(n) but the last has its high bit set and the last has it clear.
C9_VlqRoundTrip ==
  /\ pc # "failed"
  /\ pc \in {"vl_encoded", "vl_decoded"} =>
       /\ VlLen >= 1
       /\ \A i \in 1..VlLen : midi_bytes[i] \in 0..255
       /\ \A i \in 1..(VlLen - 1) : midi_bytes[i] >= 128
       /\ midi_bytes[VlLen] < 128
       /\ x = 0 => (VlLen = 1 /\ midi_bytes[1] = 0)
  /\ pc = "vl_decoded" => (ans = x /\ pos = VlLen)

\* a four-byte quantity decoded with bytes following it
C9_Witness ==
  /\ pc = "vl_decoded" /\ x = 268435455 /\ ans = x
  /\ VlLen = 4 /\ content # <<>>

----------------------------------------------------------------------------
(* Encoding then decoding: specification SpecRT *)

MaxRtEvents == 2

\* events of every variant of the data model, in tick mode
RtEvents ==
  { [dt |-> 0, chan |-> 0, type |-> "note_on", note |-> 60, velocity |-> 100],
    [dt |-> 128, chan |-> 15, type |-> "note_on", note |-> 127, velocity |-> 1],
    [dt |-> 0, chan |-> 1, type |-> "note_off", note |-> 60, velocity |-> 0],
    [dt |-> 16384, chan |-> 0, type |-> "note_off", note |-> 60, velocity |-> 64],
    [dt |-> 0, chan |-> 2, type |-> "setinst", inst |-> 5],
    [dt |-> 1, chan |-> 3, type |-> "midi_code", status |-> 227, data |-> <<1, 2>>],
    [dt |-> 0, chan |-> 0, type |-> "midi_code", status |-> 208, data |-> <<9>>],
    [dt |-> 0, type |-> "system", status |-> 240, data |-> <<7>>],
    [dt |-> 0, type |-> "meta", subtype |-> "text", code |-> 1, text |-> <<65>>],
    [dt |-> 0, type |-> "meta", subtype |-> "end_track"],
    [dt |-> 0, type |-> "meta", subtype |-> "tempo", tempo |-> 16777215],
    [dt |-> 0, type |-> "meta", subtype |-> "meta_code", code |-> 127, data |-> <<1>>],
    [dt |-> 0, type |-> "meta", subtype |-> "meta_code", code |-> 47, data |-> <<>>],
    [dt |-> 0, type |-> "meta", subtype |-> "meta_code", code |-> 1, data |-> <<65>>],
    [dt |-> 0, type |-> "meta", subtype |-> "meta_code", code |-> 81, data |-> <<>>] }

RtSecondTracks ==
  { <<>>,
    << [dt |-> 0, chan |-> 0, type |-> "note_on", note |-> 60, velocity |-> 100],
       [dt |-> 0, type |-> "meta", subtype |-> "end_track"] >> }

\* (format, ticks_per_beat)
RtHeaders == {<<0, 0>>, <<65535, 32767>>, <<1, 32768>>}

RtTrackLists ==
  {<<>>} \cup {<<t>> : t \in SeqsUpTo(RtEvents, MaxRtEvents)}
         \cup {<<t, u>> : t \in SeqsUpTo(RtEvents, MaxRtEvents), u \in RtSecondTracks}

RtFiles ==
  {[format |-> h[1], ticks_per_beat |-> h[2], tracks |-> ts] :
     h \in RtHeaders, ts \in RtTrackLists}

InitRT ==
  /\ mididata \in RtFiles
  /\ pc = "encode"
  /\ err = ""
  /\ midi_bytes = <<>>
  /\ pos = 0
  /\ chunks = <<>>
  /\ content = <<>>
  /\ cpos = 0
  /\ rs = <<>>
  /\ events = <<>>
  /\ statuses = <<>>
  /\ decoded = NoFile
  /\ x = 0
  /\ ans = 0
  /\ nconv = 0

\* encode_midi(mididata), then decode_midi is entered on the result
Encode ==
  /\ pc = "encode"
  /\ IF \A i \in 1..Len(mididata.tracks) :
          \A j \in 1..Len(mididata.tracks[i]) : EncodableEvent(mididata.tracks[i][j])
     THEN /\ midi_bytes' = encode_midi(mididata)
          /\ pc' = "chunks"
          /\ UNCHANGED err
     ELSE /\ Abort("UnencodableEvent")
          /\ UNCHANGED midi_bytes
  /\ UNCHANGED <<x, ans, pos, chunks, content, cpos, rs, events, statuses, mididata,
                 decoded, nconv>>

NextRT == Encode \/ DecChunk \/ DecEvent \/ EndTrack \/ Finish

SpecRT == InitRT /\ [][NextRT]_vars

\* C1 as stated: for every tick-mode file of the data model,
\* decode_midi(encode_midi(file)) succeeds and equals file.
C1_Original == Ended => (pc = "done" /\ decoded = mididata)

\* the files whose encoding the decoder reads back the same way: a
\* ticks-per-beat division (top bit clear), end-of-track events only at the
\* end of a track, and no meta_code event with a code the decoder gives a
\* shape of its own (text 0x01..0x0F, end of track 0x2F, tempo 0x51)
RtReadable(md) ==
  /\ md.ticks_per_beat < 32768
  /\ \A i \in 1..Len(md.tracks) :
       \A j \in 1..Len(md.tracks[i]) :
         LET e == md.tracks[i][j] IN
         /\ IsEndTrack(e) => j = Len(md.tracks[i])
         /\ (e.type = "meta" /\ e.subtype = "meta_code") =>
              ~(e.code \in 1..15 \/ e.code = 47 \/ e.code = 81)

\* C1 amended: the round trip holds for the files of RtReadable.
C1_RoundTrip ==
  /\ RtReadable(mididata) => pc # "failed"
  /\ (Ended /\ RtReadable(mididata)) => (pc = "done" /\ decoded = mididata)

\* a two-track file with a two-byte delta time and a final end of track came back
C1_Witness ==
  /\ pc = "done" /\ decoded = mididata
  /\ Len(mididata.tracks) = 2
  /\ Len(mididata.tracks[1]) = 2 /\ Len(mididata.tracks[2]) = 2
  /\ mididata.tracks[1][1].dt = 128
  /\ IsEndTrack(mididata.tracks[1][2])
  /\ mididata.ticks_per_beat = 32767

----------------------------------------------------------------------------
(* Absolute time conversions *)

is_tempo_event(event) == Has(event, "subtype") /\ event.subtype = "tempo"

\* get_initial_tempo on the list of tracks; tracks[0] of an empty list raises
get_initial_tempo(tracks) ==
  IF tracks = <<>> THEN [err |-> IndexError]
  ELSE LET tempos == SelectSeq(tracks[1], is_tempo_event) IN
       [err |-> "", val |-> IF tempos = <<>> THEN DefaultTempo ELSE tempos[1].tempo]

RECURSIVE SumDt(_, _)
SumDt(track, i) == IF i = 0 THEN 0 ELSE SumDt(track, i - 1) + track[i].dt

\* convert_to_absolute_ticks that leaves event["dt"] in place
convert_to_absolute_ticks_keep(track) ==
  [i \in 1..Len(track) |-> Update(track[i], [t |-> SumDt(track, i)])]

convert_to_absolute_ticks(track) ==
  [i \in 1..Len(track) |-> Update(Del(track[i], "dt"), [t |-> SumDt(track, i)])]

\* all_events, lines 335-337: references <<track, index>> to the events
all_events(tracks) ==
  Concat([i \in 1..Len(tracks) |-> [j \in 1..Len(tracks[i]) |-> <<i, j>>]])

\* all_events left unsorted
sort_by_t_none(tracks, refs) == refs

\* all_events.sort(key=event["t"]), line 338: list.sort is stable
sort_by_t(tracks, refs) ==
  LET key(k) == tracks[refs[k][1]][refs[k][2]].t
      rank(k) == Cardinality({m \in 1..Len(refs) :
                                key(m) < key(k) \/ (key(m) = key(k) /\ m < k)}) + 1
  IN [n \in 1..Len(refs) |-> refs[CHOOSE k \in 1..Len(refs) : rank(k) = n]]

\* lines 348-350 without t_tc_us
event_time_since_change(t_ticks, t_tc_ticks, t_tc_us, tempo, tpb) ==
  ((t_ticks - t_tc_ticks) * tempo) \div tpb

\* lines 348-350: t_us of an event at t_ticks
event_time(t_ticks, t_tc_ticks, t_tc_us, tempo, tpb) ==
  t_tc_us + ((t_ticks - t_tc_ticks) * tempo) \div tpb

\* the loop of lines 345-357 from the k-th event of the sorted list on
RECURSIVE sweep(_, _, _, _, _, _, _)
sweep(tracks, refs, k, tempo, t_tc_ticks, t_tc_us, tpb) ==
  IF k > Len(refs) THEN [err |-> "", tracks |-> tracks]
  ELSE IF tpb = 0 THEN [err |-> ZeroDivisionError, tracks |-> tracks]
  ELSE LET i == refs[k][1]
           j == refs[k][2]
           event == tracks[i][j]
           t_ticks == event.t
           t_us == event_time(t_ticks, t_tc_ticks, t_tc_us, tempo, tpb)
           updated == [tracks EXCEPT ![i][j] = Update(event, [t |-> t_us])]
       IN IF is_tempo_event(event)
          THEN sweep(updated, refs, k + 1, event.tempo, t_ticks, t_us, tpb)
          ELSE sweep(updated, refs, k + 1, tempo, t_tc_ticks, t_tc_us, tpb)

\* convert_to_absolute_time: [err, tracks], tracks being mididata["tracks"]
\* as the call leaves it
convert_to_absolute_time(md) ==
  LET ticked == [i \in 1..Len(md.tracks) |-> convert_to_absolute_ticks(md.tracks[i])]
      sorted == sort_by_t(ticked, all_events(ticked))
      tempo == get_initial_tempo(ticked)
  IN IF tempo.err # "" THEN [err |-> tempo.err, tracks |-> ticked]
     ELSE sweep(ticked, sorted, 1, tempo.val, 0, 0, md.ticks_per_beat)

\* lines 370-372 applied to track 0 only
strip_tempo_events_first(tracks) ==
  [i \in 1..Len(tracks) |->
     IF i = 1 THEN SelectSeq(tracks[i], LAMBDA e : ~is_tempo_event(e)) ELSE tracks[i]]

\* lines 370-372
strip_tempo_events(tracks) ==
  [i \in 1..Len(tracks) |-> SelectSeq(tracks[i], LAMBDA e : ~is_tempo_event(e))]

\* lines 374-380
reinsert_initial_tempo(tracks, tempo) ==
  [tracks EXCEPT ![1] =
     <<[t |-> 0, type |-> "meta", subtype |-> "tempo", tempo |-> tempo]>> \o @]

\* lines 383-390 for one track, tempo # 0
relative_track(track, tpb, tempo) ==
  [j \in 1..Len(track) |->
     LET new_t_ticks == (track[j].t * tpb) \div tempo
         t_ticks == IF j = 1 THEN 0 ELSE (track[j - 1].t * tpb) \div tempo
     IN Update(Del(track[j], "t"), [dt |-> new_t_ticks - t_ticks])]

\* convert_to_relative_time: [err, tracks]
convert_to_relative_time(md) ==
  LET tempo == get_initial_tempo(md.tracks) IN
  IF tempo.err # "" THEN [err |-> tempo.err, tracks |-> md.tracks]
  ELSE LET placed == reinsert_initial_tempo(strip_tempo_events(md.tracks), tempo.val) IN
       IF tempo.val = 0 THEN [err |-> ZeroDivisionError, tracks |-> placed]
       ELSE [err |-> "",
             tracks |-> [i \in 1..Len(placed) |->
                           relative_track(placed[i], md.ticks_per_beat, tempo.val)]]

----------------------------------------------------------------------------
(* Converting a decoded file back and forth: specification SpecTime.        *)
(* decoded keeps the file as it was decoded; mididata is converted in       *)
(* place, alternately to absolute and to relative time.                     *)

MaxTimeEvents == 2
MaxConv == 4

Note(d) == [dt |-> d, chan |-> 0, type |-> "note_on", note |-> 60, velocity |-> 100]
Tempo(d, v) == [dt |-> d, type |-> "meta", subtype |-> "tempo", tempo |-> v]
EndTrackEvent == [dt |-> 0, type |-> "meta", subtype |-> "end_track"]

TimeDts == {0, 1}
TimeTempos == {0, 2, 3}
TimeTpbs == {0, 2, 3}

TimeEvents ==
  {Note(d) : d \in TimeDts} \cup {Tempo(d, v) : d \in TimeDts, v \in TimeTempos}
    \cup {EndTrackEvent}

TimeTrackLists ==
  {<<>>} \cup {<<t>> : t \in SeqsUpTo(TimeEvents, MaxTimeEvents)}
         \cup {<<t, u>> : t \in SeqsUpTo(TimeEvents, MaxTimeEvents),
                          u \in SeqsUpTo(TimeEvents, 1)}

SmallFiles ==
  {[format |-> 1, ticks_per_beat |-> b, tracks |-> ts] :
     b \in TimeTpbs, ts \in TimeTrackLists}

\* The tempo-sweep example: 480 ticks per beat, possibly a tempo event of
\* 500000 at tick 0, a tempo change to 250000 at tick 480, a note at tick 960.
\* where = 0: the event is absent; otherwise the track (1 or 2) that holds it.
ExampleTrack(hasFirst, hasChange, hasNote) ==
  (IF hasFirst THEN <<Tempo(0, 500000)>> ELSE <<>>)
    \o (IF hasChange THEN <<Tempo(480, 250000)>> ELSE <<>>)
    \o (IF hasNote THEN <<Note(IF hasChange THEN 480 ELSE 960)>> ELSE <<>>)

ExampleFiles ==
  {[format |-> 1, ticks_per_beat |-> 480,
    tracks |-> <<ExampleTrack(first = 1, change = 1, note = 1),
                 ExampleTrack(first = 2, change = 2, note = 2)>>] :
     first \in {0, 1, 2}, change \in {1, 2}, note \in {1, 2}}

TimeFiles == SmallFiles \cup ExampleFiles

InitTime ==
  /\ mididata \in TimeFiles
  /\ decoded = mididata
  /\ pc = "ticks"
  /\ err = ""
  /\ nconv = 0
  /\ midi_bytes = <<>>
  /\ pos = 0
  /\ chunks = <<>>
  /\ content = <<>>
  /\ cpos = 0
  /\ rs = <<>>
  /\ events = <<>>
  /\ statuses = <<>>
  /\ x = 0
  /\ ans = 0

ToAbsolute ==
  /\ pc = "ticks"
  /\ nconv < MaxConv
  /\ nconv' = nconv + 1
  /\ LET r == convert_to_absolute_time(mididata) IN
     /\ mididata' = [mididata EXCEPT !.tracks = r.tracks]
     /\ IF r.err # "" THEN Abort(r.err) ELSE pc' = "micros" /\ UNCHANGED err
  /\ UNCHANGED <<x, ans, midi_bytes, pos, chunks, content, cpos, rs, events, statuses,
                 decoded>>

ToRelative ==
  /\ pc = "micros"
  /\ nconv < MaxConv
  /\ nconv' = nconv + 1
  /\ LET r == convert_to_relative_time(mididata) IN
     /\ mididata' = [mididata EXCEPT !.tracks = r.tracks]
     /\ IF r.err # "" THEN Abort(r.err) ELSE pc' = "ticks" /\ UNCHANGED err
  /\ UNCHANGED <<x, ans, midi_bytes, pos, chunks, content, cpos, rs, events, statuses,
                 decoded>>

NextTime == ToAbsolute \/ ToRelative

SpecTime == InitTime /\ [][NextTime]_vars

----------------------------------------------------------------------------
(* Claims about the conversions *)

Refs(md) == {r \in (1..Len(md.tracks)) \X (1..MaxTimeEvents + 2) : r[2] <= Len(md.tracks[r[1]])}
At(md, r) == md.tracks[r[1]][r[2]]
TempoRefs(md) == {r \in Refs(md) : is_tempo_event(At(md, r))}

\* the tick of an event of the decoded file, and the order of the merged sequence
Tick(r) == SumDt(decoded.tracks[r[1]], r[2])
Before(a, b) ==
  \/ Tick(a) < Tick(b)
  \/ Tick(a) = Tick(b) /\ (a[1] < b[1] \/ (a[1] = b[1] /\ a[2] < b[2]))

\* the tempo the sweep starts with
InitialTempo == get_initial_tempo(decoded.tracks).val

\* lastChangeMicros + floor((tick - lastChangeTick) * tempo / ticks_per_beat),
\* the last change being the last tempo event before r in the merged sequence
RECURSIVE ExpectedMicros(_)
ExpectedMicros(r) ==
  LET prior == {q \in TempoRefs(decoded) : Before(q, r)} IN
  IF prior = {}
  THEN (Tick(r) * InitialTempo) \div decoded.ticks_per_beat
  ELSE LET last == CHOOSE q \in prior : \A o \in prior : o = q \/ Before(o, q) IN
       ExpectedMicros(last)
         + ((Tick(r) - Tick(last)) * At(decoded, last).tempo) \div decoded.ticks_per_beat

FirstConverted == pc = "micros" /\ nconv = 1

SweepFormula ==
  FirstConverted => \A r \in Refs(decoded) : At(mididata, r).t = ExpectedMicros(r)

ExampleTimes ==
  \A r \in Refs(mididata) :
    /\ (is_tempo_event(At(mididata, r)) /\ At(mididata, r).tempo = 250000) =>
         At(mididata, r).t = 500000
    /\ At(mididata, r).type = "note_on" => At(mididata, r).t = 750000

\* the example with its tempo of 500000 set by a tempo event at tick 0, or
\* with no tempo event at tick 0 and the change to 250000 not on track 0
ExampleCovered ==
  \/ \E r \in TempoRefs(decoded) : At(decoded, r).tempo = 500000
  \/ ~ \E r \in TempoRefs(decoded) : r[1] = 1

\* C4 as stated: the sweep formula, and in the example (initial tempo by an
\* event at tick 0 or by default, the change on any track) the tempo change
\* is at 500000 us and the note at 750000 us.
C4_Original ==
  /\ SweepFormula
  /\ (FirstConverted /\ decoded \in ExampleFiles) => ExampleTimes

\* C4 amended: the same, the example without the case "no tempo event at
\* tick 0 and the change to 250000 on track 0" (there get_initial_tempo
\* returns 250000, the first tempo event of track 0).
C4_TempoSweep ==
  /\ SweepFormula
  /\ (FirstConverted /\ decoded \in ExampleFiles /\ ExampleCovered) => ExampleTimes

\* the example by default tempo: no tempo event at tick 0, the change on
\* track 1, the note on track 0
C4_Witness ==
  /\ FirstConverted /\ decoded \in ExampleFiles
  /\ Cardinality(TempoRefs(decoded)) = 1
  /\ Len(mididata.tracks[1]) = 1 /\ Len(mididata.tracks[2]) = 1
  /\ is_tempo_event(mididata.tracks[2][1]) /\ mididata.tracks[2][1].t = 500000
  /\ mididata.tracks[1][1].type = "note_on" /\ mididata.tracks[1][1].t = 750000

EffectiveTempo == get_initial_tempo(decoded.tracks).val

OneTempoEvent ==
  /\ TempoRefs(mididata) = {<<1, 1>>}
  /\ Has(mididata.tracks[1][1], "dt") /\ mididata.tracks[1][1].dt = 0
  /\ mididata.tracks[1][1].tempo = EffectiveTempo

\* the two conversions were both called, or one of them failed
BothCalled == nconv <= 2 /\ (nconv = 2 \/ pc = "failed")

\* C5 as stated: for every file with at least one track, toAbsolute then
\* toRelative leaves exactly one tempo event, the first event of track 0,
\* with delta 0 and the effective tempo.
C5_Original ==
  (Len(decoded.tracks) >= 1 /\ BothCalled) => (pc = "ticks" /\ OneTempoEvent)

\* C5 amended: the same for files with ticks_per_beat > 0 and an effective
\* tempo > 0 (either being 0 ends a conversion in a division by zero).
C5_SingleTempo ==
  (Len(decoded.tracks) >= 1 /\ decoded.ticks_per_beat > 0 /\ EffectiveTempo > 0
     /\ BothCalled) => (pc = "ticks" /\ OneTempoEvent)

\* a file with tempo events on both tracks, of different tempos, came back
\* with one tempo event
C5_Witness ==
  /\ pc = "ticks" /\ nconv = 2 /\ OneTempoEvent
  /\ \E q, r \in TempoRefs(decoded) :
       q[1] = 1 /\ r[1] = 2 /\ At(decoded, q).tempo # At(decoded, r).tempo

\* C6: after convert_to_absolute_time every event holds "t" and no "dt",
\* after convert_to_relative_time every event holds "dt" and no "t", and at
\* no point of an alternation does an event hold both or neither.
C6_TimeFieldExclusive ==
  /\ pc = "micros" =>
       \A r \in Refs(mididata) : Has(At(mididata, r), "t") /\ ~Has(At(mididata, r), "dt")
  /\ pc = "ticks" =>
       \A r \in Refs(mididata) : Has(At(mididata, r), "dt") /\ ~Has(At(mididata, r), "t")
  /\ \A r \in Refs(mididata) : Has(At(mididata, r), "t") # Has(At(mididata, r), "dt")

\* two tracks with events, converted four times
C6_Witness ==
  /\ pc = "ticks" /\ nconv = 4
  /\ Len(mididata.tracks) = 2
  /\ Len(mididata.tracks[1]) >= 2 /\ Len(mididata.tracks[2]) >= 1

TimePre ==
  /\ Len(decoded.tracks) >= 1
  /\ decoded.ticks_per_beat > 0
  /\ \A r \in Refs(decoded) : At(decoded, r).dt >= 0
  /\ \A r \in TempoRefs(decoded) : At(decoded, r).tempo > 0

\* C10: for a file with a track, ticks_per_beat > 0, deltas >= 0 and tempos
\* > 0, the absolute times of each track are >= 0 and non-decreasing, and
\* the deltas after convert_to_relative_time are >= 0.
C10_MonotoneTimes ==
  TimePre =>
    /\ pc # "failed"
    /\ pc = "micros" =>
         \A i \in 1..Len(mididata.tracks) :
           \A j \in 1..Len(mididata.tracks[i]) :
             /\ mididata.tracks[i][j].t >= 0
             /\ j > 1 => mididata.tracks[i][j - 1].t <= mididata.tracks[i][j].t
    /\ pc = "ticks" => \A r \in Refs(mididata) : At(mididata, r).dt >= 0

\* tempo changes on both tracks, and an event placed after the first tick
C10_Witness ==
  /\ TimePre /\ pc = "ticks" /\ nconv = 2
  /\ \E q, r \in TempoRefs(decoded) : q[1] = 1 /\ r[1] = 2 /\ Tick(q) > Tick(r)
  /\ \E r \in Refs(mididata) : At(mididata, r).dt > 0

============================================================================
